---- MODULE Spec2Model ----
(***************************************************************************)
(* A model of the fixed-size thread pool of src/src/lib.rs: ThreadPool::new *)
(* (assert, channel, spawn loop), ThreadPool::execute, the worker loop of   *)
(* Worker::new (lock, recv, guard drop, job call / break) and Drop::drop    *)
(* (sender released, handles taken and joined in index order).              *)
(***************************************************************************)
EXTENDS Integers, Sequences, FiniteSets, TLC

\* ---- bounds of the model ------------------------------------------------
MaxSize == 3
MaxJobs == 3

\* Option::None for a worker's claimed job (recv returned Err, or nothing yet)
NoJob == 0

VARIABLES
    size,        \* the argument of ThreadPool::new
    mainPc,      \* where the owner of the pool is: new / spawn loop / open / drop
    nextId,      \* loop variable `id` of the spawn loop in ThreadPool::new
    sender,      \* "NoChannel" | "Some" | "None": the Sender<Job> handle
    queue,       \* the channel's buffered jobs, oldest first
    thread,      \* id -> position of worker id's thread in its loop
    guard,       \* id -> TRUE while worker id holds the MutexGuard
    poisoned,    \* the Mutex is poisoned (a thread panicked holding the guard)
    job,         \* id -> the job worker id got from recv (NoJob for none)
    handle,      \* id -> "Some" | "None": Worker.thread
    joinIdx,     \* index of the worker the loop of drop is at
    nextJob,     \* the next job to be passed to execute (jobs are 1, 2, ...)
    execResult,  \* outcome of the last execute() call
    submitted,   \* jobs that send() accepted
    claimed,     \* jobs in the order recv() returned them
    invoked,     \* job -> number of times job() was called on it
    finished,    \* jobs whose call returned
    faulted,     \* jobs whose call panicked
    joined,      \* worker ids in the order drop called join on their handle
    drained      \* jobs recv() returned after the Sender was released

vars == <<size, mainPc, nextId, sender, queue, thread, guard, poisoned, job,
          handle, joinIdx, nextJob, execResult, submitted, claimed, invoked,
          finished, faulted, joined, drained>>

Jobs == 1..MaxJobs

\* ---- helpers modelling pieces of the code --------------------------------

\* (variant: the assertion lets size 0 through)
SizeOkOrZero(n) == n >= 0

\* assert!(size > 0)
SizeOk(n) == n > 0

\* (variant: an inclusive range, one worker too many)
WorkerIdsInclusive(n) == 0..n

\* for id in 0..size
WorkerIds(n) == 0..(n - 1)

\* the workers Vec of the pool: the ids spawned so far
Workers == DOMAIN thread

\* a thread that has ended (loop left by break, or unwound by a panic)
Terminated(id) == thread[id] \in {"exited", "panicked"}

\* the Receiver lives while some Arc to it does: the local of ThreadPool::new
\* until new returns, and the clone moved into each worker's closure
ReceiverAlive ==
    \/ mainPc \in {"channel", "spawn"}
    \/ \E id \in Workers : ~Terminated(id)

\* (variant: lock() does not exclude other holders)
MutexFreeAlways == TRUE

\* Mutex::lock can take the lock
MutexFree == \A id \in Workers : ~guard[id]

\* recv() returns: a message is buffered, or no Sender is left
RecvReady(q, s) == q # <<>> \/ s = "None"

\* (variant: disconnection reported as soon as no Sender is left)
RecvDisconnectedEarly(q, s) == s = "None"

\* recv() reports disconnection only on an empty buffer
RecvDisconnected(q, s) == q = <<>> /\ s = "None"

\* (variant: recv() returns the newest message)
RecvMessageLast(q) == q[Len(q)]

\* the message recv() returns
RecvMessage(q) == Head(q)

\* (variant: recv() leaves the message in the buffer)
RecvRestKeep(q) == q

\* the buffer recv() leaves
RecvRest(q) == Tail(q)

\* (variant: send() puts the message at the head)
SendToFront(q, j) == <<j>> \o q

\* send() appends at the tail
SendTo(q, j) == Append(q, j)

\* (variant: the guard lives on through the body, as with `if let ... = lock().recv()`)
GuardKept(g) == g

\* the temporary MutexGuard is dropped at the end of the let statement
GuardAfterLet(g) == FALSE

\* the buffer once thread id has ended: the closure's Arc is dropped, and
\* dropping the last Arc drops the Receiver, which discards what is buffered
QueueAfterEnd(id, q) ==
    IF mainPc \in {"channel", "spawn"} \/ \E o \in Workers \ {id} : ~Terminated(o)
      THEN q
      ELSE <<>>

\* (variant: the Sender is left in the pool)
SenderKept(s) == s

\* drop(self.sender.take())
SenderAfterTake(s) == "None"

\* (variant: the handle is read but left in place)
HandleNotTaken(h) == h

\* worker.thread.take()
HandleAfterTake(h) == "None"

\* (variant: the result of join is ignored)
JoinIgnoreErr(t) == "dropLoop"

\* thread.join().unwrap(): a panicked thread makes drop panic
JoinUnwrap(t) == IF t = "panicked" THEN "dropPanicked" ELSE "dropLoop"

\* (variant: join does not wait for the thread)
JoinNoWait(id) == TRUE

\* JoinHandle::join returns once the thread has ended
JoinReady(id) == Terminated(id)

\* ---- initial state: ThreadPool::new(size) is about to be called ----------
Init ==
    /\ size \in 0..MaxSize
    /\ mainPc = "new"
    /\ nextId = 0
    /\ sender = "NoChannel"
    /\ queue = <<>>
    /\ thread = <<>>
    /\ guard = <<>>
    /\ poisoned = FALSE
    /\ job = <<>>
    /\ handle = <<>>
    /\ joinIdx = 0
    /\ nextJob = 1
    /\ execResult = "none"
    /\ submitted = {}
    /\ claimed = <<>>
    /\ invoked = [j \in Jobs |-> 0]
    /\ finished = {}
    /\ faulted = {}
    /\ joined = <<>>
    /\ drained = {}

\* ---- ThreadPool::new ------------------------------------------------------
NewAssert ==
    /\ mainPc = "new"
    /\ mainPc' = IF SizeOk(size) THEN "channel" ELSE "newPanicked"
    /\ UNCHANGED <<size, nextId, sender, queue, thread, guard, poisoned, job,
                   handle, joinIdx, nextJob, execResult, submitted, claimed,
                   invoked, finished, faulted>>
    /\ UNCHANGED <<joined, drained>>

NewChannel ==
    /\ mainPc = "channel"
    /\ sender' = "Some"
    /\ nextId' = 0
    /\ mainPc' = "spawn"
    /\ UNCHANGED <<size, queue, thread, guard, poisoned, job, handle, joinIdx,
                   nextJob, execResult, submitted, claimed, invoked, finished,
                   faulted>>
    /\ UNCHANGED <<joined, drained>>

NewSpawn ==
    /\ mainPc = "spawn"
    /\ nextId \in WorkerIds(size)
    /\ thread' = thread @@ (nextId :> "lock")
    /\ guard' = guard @@ (nextId :> FALSE)
    /\ job' = job @@ (nextId :> NoJob)
    /\ handle' = handle @@ (nextId :> "Some")
    /\ nextId' = nextId + 1
    /\ UNCHANGED <<size, mainPc, sender, queue, poisoned, joinIdx, nextJob,
                   execResult, submitted, claimed, invoked, finished, faulted>>
    /\ UNCHANGED <<joined, drained>>

NewReturn ==
    /\ mainPc = "spawn"
    /\ nextId \notin WorkerIds(size)
    /\ mainPc' = "open"
    /\ UNCHANGED <<size, nextId, sender, queue, thread, guard, poisoned, job,
                   handle, joinIdx, nextJob, execResult, submitted, claimed,
                   invoked, finished, faulted>>
    /\ UNCHANGED <<joined, drained>>

\* ---- ThreadPool::execute --------------------------------------------------
PoolExists == mainPc \in {"open", "dropLoop", "joining"}

Execute ==
    /\ PoolExists
    /\ nextJob <= MaxJobs
    /\ nextJob' = nextJob + 1
    /\ IF sender # "Some"
         THEN /\ execResult' = "panicNoSender"
              /\ UNCHANGED <<queue, submitted>>
         ELSE IF ~ReceiverAlive
           THEN /\ execResult' = "panicSendError"
                /\ UNCHANGED <<queue, submitted>>
           ELSE /\ execResult' = "ok"
                /\ queue' = SendTo(queue, nextJob)
                /\ submitted' = submitted \cup {nextJob}
    /\ UNCHANGED <<size, mainPc, nextId, sender, thread, guard, poisoned, job,
                   handle, joinIdx, claimed, invoked, finished, faulted>>
    /\ UNCHANGED <<joined, drained>>

\* ---- the worker loop of Worker::new ---------------------------------------
Lock(id) ==
    /\ id \in Workers
    /\ thread[id] = "lock"
    /\ MutexFree
    /\ IF poisoned
         THEN /\ thread' = [thread EXCEPT ![id] = "panicked"]
              /\ queue' = QueueAfterEnd(id, queue)
              /\ UNCHANGED guard
         ELSE /\ thread' = [thread EXCEPT ![id] = "recv"]
              /\ guard' = [guard EXCEPT ![id] = TRUE]
              /\ UNCHANGED queue
    /\ UNCHANGED <<size, mainPc, nextId, sender, poisoned, job, handle,
                   joinIdx, nextJob, execResult, submitted, claimed, invoked,
                   finished, faulted>>
    /\ UNCHANGED <<joined, drained>>

Recv(id) ==
    /\ id \in Workers
    /\ thread[id] = "recv"
    /\ RecvReady(queue, sender)
    /\ IF RecvDisconnected(queue, sender)
         THEN /\ job' = [job EXCEPT ![id] = NoJob]
              /\ UNCHANGED <<queue, claimed, drained>>
         ELSE /\ job' = [job EXCEPT ![id] = RecvMessage(queue)]
              /\ queue' = RecvRest(queue)
              /\ claimed' = Append(claimed, RecvMessage(queue))
              /\ drained' = IF sender = "None"
                               THEN drained \cup {RecvMessage(queue)}
                               ELSE drained
    /\ thread' = [thread EXCEPT ![id] = "unlock"]
    /\ UNCHANGED <<size, mainPc, nextId, sender, guard, poisoned, handle,
                   joinIdx, nextJob, execResult, submitted, invoked, finished,
                   faulted>>
    /\ UNCHANGED joined

Unlock(id) ==
    /\ id \in Workers
    /\ thread[id] = "unlock"
    /\ guard' = [guard EXCEPT ![id] = GuardAfterLet(guard[id])]
    /\ IF job[id] # NoJob
         THEN /\ thread' = [thread EXCEPT ![id] = "exec"]
              /\ invoked' = [invoked EXCEPT ![job[id]] = @ + 1]
              /\ UNCHANGED queue
         ELSE /\ thread' = [thread EXCEPT ![id] = "exited"]
              /\ queue' = QueueAfterEnd(id, queue)
              /\ UNCHANGED invoked
    /\ UNCHANGED <<size, mainPc, nextId, sender, poisoned, job, handle,
                   joinIdx, nextJob, execResult, submitted, claimed, finished,
                   faulted>>
    /\ UNCHANGED <<joined, drained>>

JobReturn(id) ==
    /\ id \in Workers
    /\ thread[id] = "exec"
    /\ finished' = finished \cup {job[id]}
    /\ thread' = [thread EXCEPT ![id] = "lock"]
    /\ guard' = [guard EXCEPT ![id] = FALSE]
    /\ UNCHANGED <<size, mainPc, nextId, sender, queue, poisoned, job, handle,
                   joinIdx, nextJob, execResult, submitted, claimed, invoked,
                   faulted>>
    /\ UNCHANGED <<joined, drained>>

JobPanic(id) ==
    /\ id \in Workers
    /\ thread[id] = "exec"
    /\ faulted' = faulted \cup {job[id]}
    /\ thread' = [thread EXCEPT ![id] = "panicked"]
    /\ poisoned' = (poisoned \/ guard[id])
    /\ guard' = [guard EXCEPT ![id] = FALSE]
    /\ queue' = QueueAfterEnd(id, queue)
    /\ UNCHANGED <<size, mainPc, nextId, sender, job, handle, joinIdx,
                   nextJob, execResult, submitted, claimed, invoked, finished>>
    /\ UNCHANGED <<joined, drained>>

WorkerStep(id) ==
    Lock(id) \/ Recv(id) \/ Unlock(id) \/ JobReturn(id) \/ JobPanic(id)

\* ---- Drop::drop -----------------------------------------------------------
DropSender ==
    /\ mainPc = "open"
    /\ sender' = SenderAfterTake(sender)
    /\ joinIdx' = 0
    /\ mainPc' = "dropLoop"
    /\ UNCHANGED <<size, nextId, queue, thread, guard, poisoned, job, handle,
                   nextJob, execResult, submitted, claimed, invoked, finished,
                   faulted>>
    /\ UNCHANGED <<joined, drained>>

DropTake ==
    /\ mainPc = "dropLoop"
    /\ joinIdx \in Workers
    /\ IF handle[joinIdx] = "Some"
         THEN /\ handle' = [handle EXCEPT ![joinIdx] = HandleAfterTake(@)]
              /\ joined' = Append(joined, joinIdx)
              /\ mainPc' = "joining"
              /\ UNCHANGED joinIdx
         ELSE /\ joinIdx' = joinIdx + 1
              /\ UNCHANGED <<handle, mainPc, joined>>
    /\ UNCHANGED <<size, nextId, sender, queue, thread, guard, poisoned, job,
                   nextJob, execResult, submitted, claimed, invoked, finished,
                   faulted>>
    /\ UNCHANGED drained

DropJoin ==
    /\ mainPc = "joining"
    /\ JoinReady(joinIdx)
    /\ mainPc' = JoinUnwrap(thread[joinIdx])
    /\ joinIdx' = IF mainPc' = "dropLoop" THEN joinIdx + 1 ELSE joinIdx
    /\ UNCHANGED <<size, nextId, sender, queue, thread, guard, poisoned, job,
                   handle, nextJob, execResult, submitted, claimed, invoked,
                   finished, faulted>>
    /\ UNCHANGED <<joined, drained>>

DropReturn ==
    /\ mainPc = "dropLoop"
    /\ joinIdx \notin Workers
    /\ mainPc' = "joined"
    /\ UNCHANGED <<size, nextId, sender, queue, thread, guard, poisoned, job,
                   handle, joinIdx, nextJob, execResult, submitted, claimed,
                   invoked, finished, faulted>>
    /\ UNCHANGED <<joined, drained>>

\* ---- specifications -------------------------------------------------------
Next ==
    \/ NewAssert
    \/ NewChannel
    \/ NewSpawn
    \/ NewReturn
    \/ Execute
    \/ \E id \in Workers : Lock(id)
    \/ \E id \in Workers : Recv(id)
    \/ \E id \in Workers : Unlock(id)
    \/ \E id \in Workers : JobReturn(id)
    \/ \E id \in Workers : JobPanic(id)
    \/ DropSender
    \/ DropTake
    \/ DropJoin
    \/ DropReturn

Spec == Init /\ [][Next]_vars

\* threads are scheduled fairly, a called job ends (by return or by panic),
\* and a thread inside new or drop keeps running
FairSpec ==
    /\ Spec
    /\ \A id \in 0..MaxSize : WF_vars(WorkerStep(id))
    /\ WF_vars(NewAssert \/ NewChannel \/ NewSpawn \/ NewReturn)
    /\ WF_vars(DropTake \/ DropJoin \/ DropReturn)

\* ---- properties -----------------------------------------------------------
Executing == {id \in Workers : thread[id] = "exec"}
Live == {id \in Workers : ~Terminated(id)}
Panicked == {id \in Workers : thread[id] = "panicked"}

\* C1: no job is invoked more than once, no job is returned by recv twice,
\* and no two workers execute the same job at the same time.
C1_JobAtMostOnce ==
    /\ \A j \in Jobs : invoked[j] <= 1
    /\ \A i, k \in 1..Len(claimed) : i # k => claimed[i] # claimed[k]
    /\ \A a, b \in Executing : a # b => job[a] # job[b]

C1_Witness ==
    /\ \E a, b \in Executing : a # b
    /\ \E j \in finished : invoked[j] = 1

\* C2: once drop has returned, every job that send() accepted has run to its
\* end: none is still buffered, none is running, none was thrown away.
C2_AllJobsFinished ==
    mainPc = "joined" =>
        /\ submitted \subseteq finished
        /\ queue = <<>>
        /\ Executing = {}

C2_Witness ==
    /\ mainPc = "joined"
    /\ Cardinality(submitted) >= 2
    /\ submitted \subseteq finished

\* C3: once drop has returned, each of the size workers has left its loop
\* and its handle has been taken and joined.
C3_NoWorkerAlive ==
    mainPc = "joined" =>
        /\ Workers = 0..(size - 1)
        /\ \A id \in Workers : thread[id] = "exited" /\ handle[id] = "None"

C3_Witness ==
    /\ mainPc = "joined"
    /\ size >= 2
    /\ finished # {}
    /\ \A id \in Workers : thread[id] = "exited"

\* C4: at no instant do more than size jobs execute.
C4_AtMostSizeExecuting == Cardinality(Executing) <= size

C4_Witness ==
    /\ size >= 2
    /\ Cardinality(Executing) = size

\* C5: ThreadPool::new(0) panics with no channel created and no thread
\* spawned.
C5_ZeroSizeFails ==
    size = 0 =>
        /\ mainPc \in {"new", "newPanicked"}
        /\ sender = "NoChannel"
        /\ Workers = {}

C5_Witness ==
    /\ size = 0
    /\ mainPc = "newPanicked"
    /\ sender = "NoChannel"
    /\ Workers = {}

\* C6: an execute() made once the Sender has been released ends with a
\* PoolClosed error handed back to the caller and leaves the buffer as it was.
C6_ClosedSubmitRejected ==
    [][(sender = "None" /\ nextJob' # nextJob) =>
          (execResult' = "PoolClosed" /\ queue' = queue)]_vars

\* C7: with one worker, jobs are claimed in the order they were submitted
\* and a job starts only when every job submitted before it has returned.
C7_SequentialInOrder ==
    size = 1 =>
        /\ \A k \in 1..Len(claimed) : claimed[k] = k
        /\ \A id \in Executing :
              \A i \in 1..(job[id] - 1) : i \in finished

C7_Witness ==
    /\ size = 1
    /\ finished = {1, 2}
    /\ \E id \in Executing : job[id] = 3

\* C8: a worker that is executing a job does not hold the MutexGuard.
C8_NoGuardWhileExecuting == \A id \in Executing : ~guard[id]

\* two workers execute at once, while a third has just claimed a job
C8_Witness ==
    /\ \E a, b \in Executing : a # b
    /\ \E c \in Workers : thread[c] = "unlock" /\ job[c] # NoJob

\* C9: with one faulting job in a pool of size >= 2, the one thread that
\* panicked is the one that ran that job, size - 1 workers stay alive while
\* the pool is open, and every accepted job is still run to its end.
C9_OneFaultState ==
    (size >= 2 /\ Cardinality(faulted) = 1) =>
        /\ Cardinality(Panicked) = 1
        /\ \A id \in Panicked : job[id] \in faulted
        /\ mainPc = "open" => Cardinality(Live) = size - 1

C9_CrashIsolation ==
    /\ []C9_OneFaultState
    /\ [](Cardinality(faulted) <= 1) =>
          \A j \in Jobs :
             (size >= 2 /\ j \in submitted) ~> (j \in finished \cup faulted)

C9_Witness ==
    /\ size >= 2
    /\ mainPc = "open"
    /\ Cardinality(faulted) = 1
    /\ \E j \in finished : \A f \in faulted : j > f

\* C10: once the Sender has been released, drop ends up having joined
\* every worker.
C10_ShutdownCompletes == (sender = "None") ~> (mainPc = "joined")

\* C11: whatever the pool size, recv() hands the jobs of the single producer
\* out in the order they were submitted.
C11_ClaimedInSubmissionOrder ==
    \A i, k \in 1..Len(claimed) : i < k => claimed[i] < claimed[k]

C11_Witness ==
    /\ size >= 2
    /\ Len(claimed) = MaxJobs
    /\ \E a, b \in Workers : a # b /\ job[a] # NoJob /\ job[b] # NoJob

\* C12: at most one worker holds the MutexGuard, so at most one is between
\* lock() and the end of the let statement; every other live worker that is
\* not executing a job is waiting at lock().
C12_MutexExclusive ==
    /\ Cardinality({id \in Workers : guard[id]}) <= 1
    /\ Cardinality({id \in Workers : thread[id] \in {"recv", "unlock"}}) <= 1
    /\ \A id \in Workers : thread[id] \in {"recv", "unlock"} => guard[id]
    /\ \A id \in Live \ Executing : ~guard[id] => thread[id] = "lock"

C12_Witness ==
    /\ \E a \in Workers : thread[a] = "recv" /\ guard[a]
    /\ \E b \in Workers : thread[b] = "lock"
    /\ Executing # {}

\* C13: drop calls join only after the Sender has been released, and calls it
\* on workers 0, 1, 2, ... in that order.
C13_ReleaseThenJoinInOrder ==
    /\ joined # <<>> => sender = "None"
    /\ \A k \in 1..Len(joined) : joined[k] = k - 1

C13_Witness ==
    /\ size >= 2
    /\ Len(joined) = size
    /\ sender = "None"

\* C14: a recv() that returns hands out the oldest buffered job whenever the
\* buffer is not empty, also after the Sender was released; it reports
\* disconnection only on an empty buffer with the Sender released, and on an
\* empty buffer with the Sender held it does not return.
C14_DisconnectOnlyClosedAndEmpty ==
    [][\A id \in Workers :
          (thread[id] = "recv" /\ thread'[id] = "unlock") =>
              IF queue # <<>>
                THEN job'[id] = Head(queue)
                ELSE sender = "None" /\ job'[id] = NoJob]_vars

C14_Witness ==
    /\ drained # {}
    /\ \E id \in Workers : thread[id] = "exited"

\* C15: a job's panic leaves the channel and the other workers as they were:
\* the Mutex is never poisoned, the only threads that end by a panic are
\* those whose own job panicked, and the panic changes nothing in the buffer.
C15_FaultContained ==
    [][/\ ~poisoned'
       /\ \A id \in Panicked' : job'[id] \in faulted'
       /\ faulted' # faulted => queue' = queue]_vars

\* C16: while the pool is open, execute() succeeds and its job is buffered,
\* whatever earlier jobs did to the workers.
C16_OpenSubmitSucceeds ==
    [][(mainPc = "open" /\ nextJob' # nextJob) =>
          (execResult' = "ok" /\ nextJob \in submitted')]_vars

\* C17: drop returns normally only if no worker died of a panic: every
\* worker whose join drop has got past left by break, and drop panics at the
\* join of a worker whose thread panicked.
C17_FaultReportedAtJoin ==
    /\ mainPc = "joined" => (Panicked = {} /\ faulted = {})
    /\ mainPc \in {"dropLoop", "joining", "joined"} =>
          \A id \in Workers : id < joinIdx => thread[id] = "exited"
    /\ mainPc = "dropPanicked" => thread[joinIdx] = "panicked"

C17_Witness ==
    /\ mainPc = "dropPanicked"
    /\ joinIdx >= 1
    /\ thread[joinIdx] = "panicked"

\* C18: on an open pool every execute() appends its job at the tail of the
\* buffer and changes nothing else of the pool or the workers.
C18_ExecuteAppendsOnly ==
    [][(mainPc = "open" /\ nextJob' # nextJob) =>
          /\ queue' = Append(queue, nextJob)
          /\ UNCHANGED <<mainPc, sender, thread, guard, poisoned, job, handle,
                         joinIdx>>]_vars

\* C19: a worker's handle is Some until drop takes it, join is called on a
\* worker at most once and exactly on the workers whose handle was taken, a
\* thread that has ended stays ended, a taken handle stays taken, and when
\* drop has returned every handle is None.
C19_HandleState ==
    /\ mainPc \in {"spawn", "open"} => \A id \in Workers : handle[id] = "Some"
    /\ \A i, k \in 1..Len(joined) : i # k => joined[i] # joined[k]
    /\ \A id \in Workers :
          handle[id] = "None" <=> \E k \in 1..Len(joined) : joined[k] = id
    /\ mainPc = "joined" => \A id \in Workers : handle[id] = "None"

C19_HandleTakenOnce ==
    /\ []C19_HandleState
    /\ [][\A id \in Workers :
             /\ Terminated(id) => thread'[id] = thread[id]
             /\ handle[id] = "None" => handle'[id] = "None"]_vars

C19_Witness ==
    /\ mainPc = "joined"
    /\ size >= 2
    /\ Len(joined) = size
    /\ \A id \in Workers : handle[id] = "None" /\ Terminated(id)

====
